---- MODULE Spec2Model ----
(***************************************************************************)
(* Model of streamlit_app.py: the Lifestyle & Comorbidity dashboard.       *)
(*                                                                         *)
(* A DataFrame is a record [index, data]: index is the sequence of row     *)
(* labels (pandas' RangeIndex labels 0..n-1 after read_csv), data the      *)
(* sequence of rows, each row a function from column name to value.        *)
(* Numeric cells are fixed-point integers counting hundredths (Age 40 is   *)
(* 4000, an income ratio of 1.06 is 106), so that int() and round(x, 1)    *)
(* are modelled by what they do to the fraction.  The 18 metabolic columns *)
(* are read only by the charts and the correlation matrix, whose floating  *)
(* point values are not modelled; the rows carry the other columns.        *)
(***************************************************************************)
EXTENDS Integers, Sequences, FiniteSets, TLC

\* ------------------------------------------------------------------ bounds
MaxFilterRows == 2
MaxOutcomeRows == 4
MaxLifestyleRows == 3
MaxUniformRows == 9
MaxPasses == 2

\* --------------------------------------------------------------- constants
OUTCOME_COLS ==
    << "Heart_Attack", "Diabetes", "Stroke", "Celiac_Disease",
       "Arthritis", "Liver_Disease", "Asthma", "COPD" >>

LIFESTYLE_COLS ==
    << "Cigarettes_Per_Day", "Sleep_Hours", "Alcohol_Use_Frequency",
       "Physical_Activity_Equivalent_Min" >>

\* float('nan') in a numeric column (all modelled numeric data are >= 0)
NaN == -1
\* a missing cell of an object (string) column
NA == "<NA>"

Range(s) == { s[i] : i \in 1..Len(s) }

\* str.replace("_", " ") on the column names the script labels
nice_label(name) ==
    CASE name = "Heart_Attack" -> "Heart Attack"
      [] name = "Celiac_Disease" -> "Celiac Disease"
      [] name = "Liver_Disease" -> "Liver Disease"
      [] name = "Cigarettes_Per_Day" -> "Cigarettes Per Day"
      [] name = "Sleep_Hours" -> "Sleep Hours"
      [] name = "Alcohol_Use_Frequency" -> "Alcohol Use Frequency"
      [] name = "Physical_Activity_Equivalent_Min"
            -> "Physical Activity Equivalent Min"
      [] OTHER -> name

\* ------------------------------------------------------------- arithmetic
\* int(x): truncation toward zero of a value in hundredths
IntTrunc(x) ==
    IF x >= 0 THEN (x \div 100) * 100 ELSE 0 - (((0 - x) \div 100) * 100)

\* num/den rounded to the nearest integer, ties to the even neighbour
\* (Python's round and format, numpy's rint); num >= 0, den > 0
RoundHalfEven(num, den) ==
    LET q == num \div den
        r == num % den
    IN  IF 2 * r < den THEN q
        ELSE IF 2 * r > den THEN q + 1
        ELSE IF q % 2 = 0 THEN q ELSE q + 1

\* round(x, 1) on a value in hundredths: the nearest multiple of 0.1
Round1(x) == RoundHalfEven(x, 10) * 10

\* ------------------------------------------------------------ the CSV file
DefaultRow ==
    [ Age |-> 4000, Gender |-> "Female", Ethnicity |-> "White",
      Education_Level |-> "College", Income_to_Poverty_Ratio |-> 120,
      Cigarettes_Per_Day |-> 0, Sleep_Hours |-> 700,
      Alcohol_Use_Frequency |-> 100,
      Physical_Activity_Equivalent_Min |-> 3000,
      Heart_Attack |-> "No", Diabetes |-> "No", Stroke |-> "No",
      Celiac_Disease |-> "No", Arthritis |-> "No", Liver_Disease |-> "No",
      Asthma |-> "No", COPD |-> "No" ]

\* rows that differ from DefaultRow in one filter field
FilterRows ==
    << DefaultRow,
       [DefaultRow EXCEPT !.Age = 4100],
       [DefaultRow EXCEPT !.Age = NaN],
       [DefaultRow EXCEPT !.Gender = "Male"],
       [DefaultRow EXCEPT !.Gender = NA],
       [DefaultRow EXCEPT !.Ethnicity = "Black"],
       [DefaultRow EXCEPT !.Education_Level = "HighSchool"],
       [DefaultRow EXCEPT !.Income_to_Poverty_Ratio = 106],
       [DefaultRow EXCEPT !.Income_to_Poverty_Ratio = 134],
       [DefaultRow EXCEPT !.Cigarettes_Per_Day = 100],
       [DefaultRow EXCEPT !.Sleep_Hours = 750],
       [DefaultRow EXCEPT !.Alcohol_Use_Frequency = 200],
       [DefaultRow EXCEPT !.Physical_Activity_Equivalent_Min = 4500] >>

\* rows that differ from DefaultRow in the outcome columns
OutcomeRows ==
    << [DefaultRow EXCEPT !.Heart_Attack = "Yes"],
       DefaultRow,
       [DefaultRow EXCEPT !.Heart_Attack = "YES"],
       [DefaultRow EXCEPT !.Heart_Attack = "no"],
       [DefaultRow EXCEPT !.Diabetes = "yes", !.COPD = NA] >>

\* rows that differ from DefaultRow in the default lifestyle column
LifestyleRows ==
    << DefaultRow,
       [DefaultRow EXCEPT !.Physical_Activity_Equivalent_Min = 4000],
       [DefaultRow EXCEPT !.Physical_Activity_Equivalent_Min = 4500],
       [DefaultRow EXCEPT !.Physical_Activity_Equivalent_Min = 6000,
                          !.Asthma = "Yes"] >>

SeqsUpTo(S, n) == UNION { [1..k -> S] : k \in 0..n }

\* the files of at most n rows taken from rows in their listed order, each
\* row at most once (strict) or any number of times
FilesFrom(rows, n, strict) ==
    LET picks ==
            { p \in SeqsUpTo(1..Len(rows), n) :
                \A i \in 1..(Len(p) - 1) :
                    IF strict THEN p[i] < p[i + 1] ELSE p[i] <= p[i + 1] }
    IN  { [i \in 1..Len(p) |-> rows[p[i]]] : p \in picks }

\* a file written with its index: the unnamed first column read_csv names
WithIndexColumn(rows) ==
    [ i \in 1..Len(rows) |-> rows[i] @@ ("Unnamed: 0" :> (i - 1)) ]

UniformTables == { [i \in 1..k |-> DefaultRow] : k \in 1..MaxUniformRows }

CsvFiles ==
    FilesFrom(FilterRows, MaxFilterRows, TRUE)
    \cup FilesFrom(OutcomeRows, MaxOutcomeRows, FALSE)
    \cup FilesFrom(LifestyleRows, MaxLifestyleRows, FALSE)
    \cup UniformTables
    \cup { WithIndexColumn(t) : t \in UniformTables }

\* ----------------------------------------------------------------- state
VARIABLES
    csv,            \* the rows of processed_data.csv
    cache,          \* st.cache_data's stored result of load_data
    loads,          \* number of times the body of load_data has run
    passes,         \* number of script runs started
    pc,             \* position of the current script run
    raised,         \* the exception that ended the run, "" if none
    df,             \* module-level df of the current run
    widgets,        \* <<>> before the sidebar is first built, else <<w>>
    life_var,       \* value of the lifestyle selectbox
    filtered,       \* apply_filters' result
    metrics,        \* the three st.metric values, <<>> if not computed
    prev_df,        \* prevalence_table's result, <<>> if not computed
    q,              \* the four quantile cut points (times 3)
    filtered_life,  \* filtered plus Lifestyle_Group
    group_prev      \* prevalence per lifestyle group

vars ==
    << csv, cache, loads, passes, pc, raised, df, widgets, life_var,
       filtered, metrics, prev_df, q, filtered_life, group_prev >>

EmptyFrame == [index |-> << >>, data |-> << >>]

DefaultLifeVar == "Physical_Activity_Equivalent_Min"

Init ==
    /\ csv \in CsvFiles
    /\ cache = EmptyFrame
    /\ loads = 0
    /\ passes = 1
    /\ pc = "load"
    /\ raised = ""
    /\ df = EmptyFrame
    /\ widgets = << >>
    /\ life_var = DefaultLifeVar
    /\ filtered = EmptyFrame
    /\ metrics = << >>
    /\ prev_df = << >>
    /\ q = << >>
    /\ filtered_life = EmptyFrame
    /\ group_prev = << >>

\* -------------------------------------------------------------- load_data
DropUnnamed(r) ==
    IF "Unnamed: 0" \in DOMAIN r
    THEN [c \in DOMAIN r \ {"Unnamed: 0"} |-> r[c]]
    ELSE r

\* astype(str): a missing cell becomes the string "nan"
AsStr(v) == IF v = NA THEN "nan" ELSE v

StrOutcomes(r) ==
    [c \in DOMAIN r |-> IF c \in Range(OUTCOME_COLS) THEN AsStr(r[c]) ELSE r[c]]

\* str.upper on the strings an outcome cell can hold
Upper(s) ==
    CASE s \in {"Yes", "YES", "yes", "YEs", "YeS", "yES", "yEs", "yeS"} -> "YES"
      [] s \in {"No", "NO", "no", "nO"} -> "NO"
      [] s = "nan" -> "NAN"
      [] OTHER -> s

\* the comparison without str.upper
IsYesExact(v) == v = "Yes"

IsYes(v) == Upper(v) = "YES"

ComorbidityCount(r) ==
    Cardinality({ i \in 1..Len(OUTCOME_COLS) : IsYes(r[OUTCOME_COLS[i]]) })

WithComorbidity(r) ==
    LET n == ComorbidityCount(r)
    IN  r @@ ("Comorbidity_Count" :> n)
          @@ ("Any_Comorbidity" :> IF n > 0 THEN "Yes" ELSE "No")

load_data(rows) ==
    [ index |-> [i \in 1..Len(rows) |-> i - 1],
      data  |-> [i \in 1..Len(rows) |->
                    WithComorbidity(StrOutcomes(DropUnnamed(rows[i])))] ]

\* --------------------------------------------------- apply_filters: widgets
Column(frame, col) == [i \in 1..Len(frame.data) |-> frame.data[i][col]]

Defined(col) == { v \in Range(col) : v # NaN }

\* Series.min() / Series.max(): missing values are skipped, NaN if none is left
SeriesMin(col) ==
    IF Defined(col) = {} THEN NaN
    ELSE CHOOSE m \in Defined(col) : \A v \in Defined(col) : m <= v

SeriesMax(col) ==
    IF Defined(col) = {} THEN NaN
    ELSE CHOOSE m \in Defined(col) : \A v \in Defined(col) : m >= v

\* sorted(df[c].dropna().unique())
Options(frame, c) == { v \in Range(Column(frame, c)) : v # NA }

IntSliders ==
    { "Age", "Cigarettes_Per_Day", "Sleep_Hours", "Alcohol_Use_Frequency",
      "Physical_Activity_Equivalent_Min" }

RangeCols == IntSliders \cup {"Income_to_Poverty_Ratio"}

SetCols == {"Gender", "Ethnicity", "Education_Level"}

\* int(float('nan')) raises ValueError
IntOfNaNRaises(frame) ==
    \E c \in IntSliders : SeriesMin(Column(frame, c)) = NaN

\* the (min_value, max_value) each slider is built with
SliderBounds(frame, c) ==
    IF c = "Income_to_Poverty_Ratio"
    THEN << Round1(SeriesMin(Column(frame, c))),
            Round1(SeriesMax(Column(frame, c))) >>
    ELSE << IntTrunc(SeriesMin(Column(frame, c))),
            IntTrunc(SeriesMax(Column(frame, c))) >>

SliderStep(c) ==
    CASE c = "Income_to_Poverty_Ratio" -> 10
      [] c = "Physical_Activity_Equivalent_Min" -> 1000
      [] OTHER -> 100

\* value=(min, max), default=all options: what the widgets return on first load
DefaultWidgets(frame) ==
    [ c \in RangeCols \cup SetCols |->
        IF c \in RangeCols THEN SliderBounds(frame, c) ELSE Options(frame, c) ]

\* the positions a slider handle can take
SliderValues(b, step) ==
    { b[1] + k * step : k \in 0..((b[2] - b[1]) \div step) } \cup { b[2] }

SliderRanges(b, step) ==
    { r \in SliderValues(b, step) \X SliderValues(b, step) : r[1] <= r[2] }

\* ------------------------------------------------------ apply_filters: mask
\* between with both bounds excluded
BetweenExclusive(x, lo, hi) == x # NaN /\ lo < x /\ x < hi

\* Series.between(lo, hi): inclusive on both sides, False for NaN
Between(x, lo, hi) == x # NaN /\ lo <= x /\ x <= hi

RowMask(r, w) ==
    /\ \A c \in RangeCols : Between(r[c], w[c][1], w[c][2])
    /\ \A c \in SetCols : w[c] # {} => r[c] \in w[c]

\* the boolean Series built at "Build mask"
Mask(frame, w) == [i \in 1..Len(frame.data) |-> RowMask(frame.data[i], w)]

\* a selection that returns the kept rows last to first
TakeReversed(frame, mask) ==
    LET keep(i) == mask[i]
        pos == SelectSeq([i \in 1..Len(frame.data) |-> i], keep)
        n == Len(pos)
    IN  [ index |-> [k \in 1..n |-> frame.index[pos[n + 1 - k]]],
          data  |-> [k \in 1..n |-> frame.data[pos[n + 1 - k]]] ]

\* frame[mask].copy(): the rows whose mask is True, labels and cells kept
Take(frame, mask) ==
    LET keep(i) == mask[i]
        pos == SelectSeq([i \in 1..Len(frame.data) |-> i], keep)
    IN  [ index |-> [k \in 1..Len(pos) |-> frame.index[pos[k]]],
          data  |-> [k \in 1..Len(pos) |-> frame.data[pos[k]]] ]

\* ------------------------------------------------------- prevalence_table
\* the percentage cut, not rounded, to one decimal
PrevalenceFloor(frame, col) ==
    LET n == Len(frame.data)
        yes == Cardinality({ i \in 1..n : IsYes(frame.data[i][col]) })
    IN  IF n = 0 THEN NaN ELSE (1000 * yes) \div n

\* (s == "YES").mean() * 100, rounded to 1 decimal: the value in tenths of a
\* percent; the mean of an empty column is NaN
Prevalence(frame, col) ==
    LET n == Len(frame.data)
        yes == Cardinality({ i \in 1..n : IsYes(frame.data[i][col]) })
    IN  IF n = 0 THEN NaN ELSE RoundHalfEven(1000 * yes, n)

PrevalenceRows(frame) ==
    [ i \in 1..Len(OUTCOME_COLS) |->
        ("Outcome" :> nice_label(OUTCOME_COLS[i]))
        @@ ("Prevalence (%)" :> Prevalence(frame, OUTCOME_COLS[i])) ]

\* rows in descending order of "Prevalence (%)", equal values in their
\* original order or, with reversed, in the reverse of it
OrderedBy(rows, reversed) ==
    LET v(i) == rows[i]["Prevalence (%)"]
        before(j, i) == IF reversed THEN j > i ELSE j < i
        rank(i) ==
            1 + Cardinality({ j \in 1..Len(rows) :
                                \/ v(j) > v(i)
                                \/ v(j) = v(i) /\ before(j, i) })
    IN  [ k \in 1..Len(rows) |-> rows[CHOOSE i \in 1..Len(rows) : rank(i) = k] ]

\* sort_values with ascending left at its default True
AscendingOrders(rows) ==
    LET v(i) == rows[i]["Prevalence (%)"]
        rank(i) ==
            1 + Cardinality({ j \in 1..Len(rows) :
                                \/ v(j) < v(i)
                                \/ v(j) = v(i) /\ j < i })
    IN  { [ k \in 1..Len(rows) |-> rows[CHOOSE i \in 1..Len(rows) : rank(i) = k] ] }

\* sort_values("Prevalence (%)", ascending=False) with the default
\* kind="quicksort", which is not a stable sort: the order of rows with equal
\* keys is whatever the numpy build's argsort leaves.  The possible results
\* are represented by the two extreme ones: equal keys in their original
\* order, and equal keys in the reverse of it.
SortValuesDescending(rows) ==
    { OrderedBy(rows, reversed) : reversed \in BOOLEAN }

\* ------------------------------------------------------- headline metrics
\* f"{mean * 100:.1f}", f"{mean:.2f}", int(max): tenths, hundredths, integer
HeadlineMetrics(frame) ==
    LET n == Len(frame.data)
        count(i) == frame.data[i]["Comorbidity_Count"]
        any == Cardinality({ i \in 1..n : frame.data[i]["Any_Comorbidity"] = "Yes" })
        total[i \in 0..n] == IF i = 0 THEN 0 ELSE total[i - 1] + count(i)
        max == CHOOSE m \in { count(i) : i \in 1..n } : \A i \in 1..n : m >= count(i)
    IN  << RoundHalfEven(1000 * any, n), RoundHalfEven(100 * total[n], n), max >>

\* ------------------------------------------------------- lifestyle tiers
TierLabels == << "Low", "Medium", "High" >>

\* the k-th smallest value of a sequence
KthSmallest(vals, k) ==
    CHOOSE v \in Range(vals) :
        /\ Cardinality({ i \in 1..Len(vals) : vals[i] < v }) < k
        /\ k <= Cardinality({ i \in 1..Len(vals) : vals[i] <= v })

\* three times Series.quantile(k/3) (linear interpolation between the order
\* statistics around position k*(n-1)/3), kept exact by the factor 3
Quantile3(vals, k) ==
    LET n == Len(vals)
        j == (k * (n - 1)) \div 3
        f == (k * (n - 1)) % 3
        lo == KthSmallest(vals, j + 1)
    IN  IF f = 0 THEN 3 * lo
        ELSE 3 * lo + f * (KthSmallest(vals, j + 2) - lo)

Quantiles(vals) == [ k \in 1..4 |-> Quantile3(vals, k - 1) ]

\* algos.unique on the monotonic bin edges
UniqueBins(bins) ==
    LET keep(i) == i = 1 \/ bins[i] # bins[i - 1]
        pos == SelectSeq([i \in 1..Len(bins) |-> i], keep)
    IN  [ k \in 1..Len(pos) |-> bins[pos[k]] ]

\* the edges pd.cut works with under duplicates="drop"
DroppedBins(bins) ==
    IF Len(UniqueBins(bins)) < Len(bins) /\ Len(bins) # 2
    THEN UniqueBins(bins) ELSE bins

\* "Bin labels must be one fewer than the number of bin edges"
CutRaises(bins, labels) == Len(labels) # Len(DroppedBins(bins)) - 1

\* the category pd.cut(right=True, include_lowest=True) gives a value x
\* (times 3, like the edges): searchsorted(side="left"), the lowest edge
\* counted into the first bin, NA outside the edges
Cut(x, bins, labels) ==
    LET b == DroppedBins(bins)
        found == Cardinality({ j \in 1..Len(b) : b[j] < x })
        id == IF x = b[1] THEN 1 ELSE found
    IN  IF id = 0 \/ id = Len(b) THEN NA ELSE labels[id]

WithLifestyleGroup(frame, col, bins) ==
    [ index |-> frame.index,
      data  |-> [ i \in 1..Len(frame.data) |->
                    frame.data[i] @@
                    ("Lifestyle_Group" :> Cut(3 * frame.data[i][col], bins, TierLabels)) ] ]

\* groupby("Lifestyle_Group", dropna=True).apply(mean of Any_Comorbidity ==
\* "Yes"): one row per group, the mean kept as <<yes, members>> (<<0, 0>> is
\* the NaN of a group without members).  A categorical key is grouped with
\* observed=False by default in pandas 1 and 2 (every category gets a row)
\* and with observed=True in pandas 3 (only categories with members do).
GroupPrevalence(frame, observed) ==
    LET members(g) ==
            { i \in 1..Len(frame.data) : frame.data[i]["Lifestyle_Group"] = g }
        yes(g) ==
            { i \in members(g) : frame.data[i]["Any_Comorbidity"] = "Yes" }
        shown(g) == ~observed \/ members(g) # {}
        groups == SelectSeq(TierLabels, shown)
    IN  [ k \in 1..Len(groups) |->
            [ Lifestyle_Group |-> groups[k],
              Prevalence |-> << Cardinality(yes(groups[k])),
                                Cardinality(members(groups[k])) >> ] ]

\* ------------------------------------------------------- the script run
NaNToInt == "ValueError: cannot convert float NaN to integer"

BinLabels ==
    "ValueError: Bin labels must be one fewer than the number of bin edges"

\* df = load_data(DATA_PATH) under @st.cache_data: the body runs on the first
\* call only; every call returns a copy of the stored result
Load ==
    /\ pc = "load"
    /\ IF loads = 0
       THEN cache' = load_data(csv) /\ loads' = 1
       ELSE UNCHANGED << cache, loads >>
    /\ df' = cache'
    /\ pc' = "filter"
    /\ UNCHANGED << csv, passes, raised, widgets, life_var, filtered, metrics,
                    prev_df, q, filtered_life, group_prev >>

\* apply_filters that drops the unmatched rows from df itself
ApplyFiltersInPlace ==
    /\ pc = "filter"
    /\ IF IntOfNaNRaises(df)
       THEN /\ raised' = NaNToInt
            /\ pc' = "error"
            /\ UNCHANGED << widgets, filtered, df >>
       ELSE LET w == IF widgets = << >> THEN DefaultWidgets(df) ELSE widgets[1]
            IN  /\ widgets' = << w >>
                /\ filtered' = Take(df, Mask(df, w))
                /\ df' = filtered'
                /\ pc' = "guard"
                /\ UNCHANGED raised
    /\ UNCHANGED << csv, cache, loads, passes, life_var, metrics, prev_df, q,
                    filtered_life, group_prev >>

\* filtered = apply_filters(df): the sidebar widgets return the session's
\* values (their defaults on first load), then the mask selects the rows
ApplyFilters ==
    /\ pc = "filter"
    /\ IF IntOfNaNRaises(df)
       THEN /\ raised' = NaNToInt
            /\ pc' = "error"
            /\ UNCHANGED << widgets, filtered >>
       ELSE LET w == IF widgets = << >> THEN DefaultWidgets(df) ELSE widgets[1]
            IN  /\ widgets' = << w >>
                /\ filtered' = Take(df, Mask(df, w))
                /\ pc' = "guard"
                /\ UNCHANGED raised
    /\ UNCHANGED << csv, cache, loads, passes, df, life_var, metrics, prev_df,
                    q, filtered_life, group_prev >>

\* the script without its "if filtered.empty" block
NoEmptyGuard ==
    /\ pc = "guard"
    /\ pc' = "metrics"
    /\ UNCHANGED << csv, cache, loads, passes, raised, df, widgets, life_var,
                    filtered, metrics, prev_df, q, filtered_life, group_prev >>

\* if filtered.empty: st.warning(...); st.stop().  A stopped run never builds
\* the lifestyle selectbox, so the session drops that widget's value.
EmptyGuard ==
    /\ pc = "guard"
    /\ IF Len(filtered.data) = 0
       THEN pc' = "stopped" /\ life_var' = DefaultLifeVar
       ELSE pc' = "metrics" /\ UNCHANGED life_var
    /\ UNCHANGED << csv, cache, loads, passes, raised, df, widgets, filtered,
                    metrics, prev_df, q, filtered_life, group_prev >>

\* the three st.metric calls; int(max) of an empty column is int(NaN)
Metrics ==
    /\ pc = "metrics"
    /\ IF Len(filtered.data) = 0
       THEN raised' = NaNToInt /\ pc' = "error" /\ UNCHANGED metrics
       ELSE /\ metrics' = HeadlineMetrics(filtered)
            /\ pc' = "prevalence"
            /\ UNCHANGED raised
    /\ UNCHANGED << csv, cache, loads, passes, df, widgets, life_var, filtered,
                    prev_df, q, filtered_life, group_prev >>

prevalence_table(frame) == SortValuesDescending(PrevalenceRows(frame))

\* prev_df = prevalence_table(filtered)
PrevalenceStep ==
    /\ pc = "prevalence"
    /\ prev_df' \in prevalence_table(filtered)
    /\ pc' = "tiers"
    /\ UNCHANGED << csv, cache, loads, passes, raised, df, widgets, life_var,
                    filtered, metrics, q, filtered_life, group_prev >>

\* section 3: quantiles, pd.cut into Low/Medium/High, prevalence per group
LifestyleTiers ==
    /\ pc = "tiers"
    /\ IF Len(filtered.data) = 0
       THEN /\ raised' = BinLabels
            /\ pc' = "error"
            /\ UNCHANGED << q, filtered_life, group_prev >>
       ELSE /\ q' = Quantiles(Column(filtered, life_var))
            /\ IF CutRaises(q', TierLabels)
               THEN /\ filtered_life' = filtered
                    /\ raised' = BinLabels
                    /\ pc' = "error"
                    /\ UNCHANGED group_prev
               ELSE /\ filtered_life' = WithLifestyleGroup(filtered, life_var, q')
                    /\ \E observed \in BOOLEAN :
                          group_prev' = GroupPrevalence(filtered_life', observed)
                    /\ pc' = "corr"
                    /\ UNCHANGED raised
    /\ UNCHANGED << csv, cache, loads, passes, df, widgets, life_var, filtered,
                    metrics, prev_df >>

\* section 4: the correlation heatmap reads filtered's metabolic columns
Correlation ==
    /\ pc = "corr"
    /\ pc' = "done"
    /\ UNCHANGED << csv, cache, loads, passes, raised, df, widgets, life_var,
                    filtered, metrics, prev_df, q, filtered_life, group_prev >>

\* ------------------------------------------------------- user interaction
\* a changed widget value makes Streamlit run the script again from the top
Rerun(w, lv) ==
    /\ passes < MaxPasses
    /\ passes' = passes + 1
    /\ pc' = "load"
    /\ raised' = ""
    /\ widgets' = w
    /\ life_var' = lv
    /\ df' = EmptyFrame
    /\ filtered' = EmptyFrame
    /\ metrics' = << >>
    /\ prev_df' = << >>
    /\ q' = << >>
    /\ filtered_life' = EmptyFrame
    /\ group_prev' = << >>
    /\ UNCHANGED << csv, cache, loads >>

\* the run is over and the sidebar was built
SidebarShown == pc \in {"done", "stopped", "error"} /\ widgets # << >>

MoveSlider ==
    /\ SidebarShown
    /\ \E c \in RangeCols :
         \E r \in SliderRanges(SliderBounds(df, c), SliderStep(c)) :
            /\ r # widgets[1][c]
            /\ Rerun(<< [widgets[1] EXCEPT ![c] = r] >>, life_var)

PickOptions ==
    /\ SidebarShown
    /\ \E c \in SetCols :
         \E S \in SUBSET Options(df, c) :
            /\ S # widgets[1][c]
            /\ Rerun(<< [widgets[1] EXCEPT ![c] = S] >>, life_var)

SelectLifestyle ==
    /\ pc = "done" \/ (pc = "error" /\ raised = BinLabels)
    /\ \E v \in Range(LIFESTYLE_COLS) \ {life_var} :
         Rerun(widgets, v)

Next ==
    \/ Load
    \/ ApplyFilters
    \/ EmptyGuard
    \/ Metrics
    \/ PrevalenceStep
    \/ LifestyleTiers
    \/ Correlation
    \/ MoveSlider
    \/ PickOptions
    \/ SelectLifestyle

Spec == Init /\ [][Next]_vars

\* ================================================================ claims
\* apply_filters has returned in the current run
FilterReturned ==
    \/ pc \in {"guard", "stopped", "metrics", "prevalence", "tiers", "corr", "done"}
    \/ pc = "error" /\ raised = BinLabels

\* the label of base row i is among the labels of frame
Kept(frame, base, i) == base.index[i] \in Range(frame.index)

InRange(x, rng) == x # NaN /\ rng[1] <= x /\ x <= rng[2]

AllowedBy(x, selected) == selected = {} \/ x \in selected

\* C1: a row of the base table is in the table apply_filters returns if and
\* only if Age, Income_to_Poverty_Ratio, Cigarettes_Per_Day, Sleep_Hours,
\* Alcohol_Use_Frequency and Physical_Activity_Equivalent_Min all lie in their
\* selected ranges, bounds included, and Gender, Ethnicity and Education_Level
\* are each in their selected set or that set is empty.
C1_FilterIff ==
    FilterReturned =>
        LET w == widgets[1]
        IN  \A i \in 1..Len(df.data) :
              LET r == df.data[i]
              IN  Kept(filtered, df, i) <=>
                    /\ InRange(r.Age, w.Age)
                    /\ InRange(r.Income_to_Poverty_Ratio, w.Income_to_Poverty_Ratio)
                    /\ InRange(r.Cigarettes_Per_Day, w.Cigarettes_Per_Day)
                    /\ InRange(r.Sleep_Hours, w.Sleep_Hours)
                    /\ InRange(r.Alcohol_Use_Frequency, w.Alcohol_Use_Frequency)
                    /\ InRange(r.Physical_Activity_Equivalent_Min,
                               w.Physical_Activity_Equivalent_Min)
                    /\ AllowedBy(r.Gender, w.Gender)
                    /\ AllowedBy(r.Ethnicity, w.Ethnicity)
                    /\ AllowedBy(r.Education_Level, w.Education_Level)

\* Age range [40, 40] over a table with an Age 40 and an Age 41 row keeps
\* exactly the Age 40 row
C1_Witness ==
    /\ FilterReturned
    /\ widgets[1].Age = << 4000, 4000 >>
    /\ Len(df.data) = 2
    /\ df.data[1].Age = 4000
    /\ df.data[2].Age = 4100
    /\ filtered.index = << 0 >>

\* every spelling of "yes" that differs from "Yes" in case only
YesSpellings == {"Yes", "YES", "yes", "YEs", "YeS", "yES", "yEs", "yeS"}

YesFields(r) == { i \in 1..Len(OUTCOME_COLS) : r[OUTCOME_COLS[i]] \in YesSpellings }

Consistent(r) ==
    /\ r["Comorbidity_Count"] = Cardinality(YesFields(r))
    /\ r["Comorbidity_Count"] \in 0..8
    /\ r["Any_Comorbidity"] \in {"Yes", "No"}
    /\ r["Any_Comorbidity"] = "Yes" <=> r["Comorbidity_Count"] > 0

\* C2: in the loaded table and in every table obtained from it by filtering,
\* each record's Comorbidity_Count is the number of its 8 Outcome fields that
\* equal "Yes" up to case (an integer in 0..8), and its Any_Comorbidity is
\* "Yes" exactly when that count is positive, "No" otherwise.
C2_ComorbidityConsistent ==
    \A frame \in {cache, df, filtered, filtered_life} :
        \A i \in 1..Len(frame.data) : Consistent(frame.data[i])

\* a filtered record counted through an upper-case "YES"
C2_Witness ==
    /\ FilterReturned
    /\ \E i \in 1..Len(filtered.data) :
          /\ filtered.data[i].Heart_Attack = "YES"
          /\ filtered.data[i]["Comorbidity_Count"] = 1
    /\ \E i \in 1..Len(filtered.data) :
          filtered.data[i]["Any_Comorbidity"] = "No"

\* C3: a pass whose filtered table has no rows ends at the "no matches"
\* notice; the headline metrics, prevalence_table, the lifestyle tiers and the
\* correlation only ever run on a filtered table with at least one row.
C3_NoAggregationOnEmpty ==
    /\ pc \in {"metrics", "prevalence", "tiers", "corr", "done"}
          => Len(filtered.data) >= 1
    /\ (Len(metrics) > 0 \/ Len(prev_df) > 0 \/ Len(q) > 0 \/ Len(group_prev) > 0)
          => Len(filtered.data) >= 1
    /\ (FilterReturned /\ Len(filtered.data) = 0) => pc \in {"guard", "stopped"}
    /\ pc = "stopped" => Len(filtered.data) = 0 /\ raised = ""

\* a pass over a non-empty base table that stopped at the notice
C3_Witness ==
    /\ pc = "stopped"
    /\ Len(df.data) >= 1
    /\ Len(filtered.data) = 0
    /\ Len(metrics) = 0
    /\ Len(prev_df) = 0
    /\ Len(group_prev) = 0

\* prevalence_table has returned in the current run
PrevalenceReturned == Len(prev_df) > 0

YesRows(frame, col) ==
    Cardinality({ i \in 1..Len(frame.data) : frame.data[i][col] \in YesSpellings })

\* the value reported for outcome column col
Reported(col) ==
    LET k == CHOOSE k \in 1..Len(prev_df) : prev_df[k]["Outcome"] = nice_label(col)
    IN  prev_df[k]["Prevalence (%)"]

\* v tenths is a nearest tenth to 1000 * yes / n
NearestTenth(v, yes, n) ==
    /\ 2 * (v * n - 1000 * yes) <= n
    /\ 2 * (1000 * yes - v * n) <= n

\* C4: for a table of N >= 1 rows prevalence_table reports, for each of the 8
\* Outcome columns, 100 * (rows equal to "Yes" up to case) / N rounded to one
\* decimal: a value in [0, 100], 100.0 when every row is "Yes", 50.0 for
\* Heart_Attack = ["Yes", "No", "YES", "no"]; one result row per column.
C4_PrevalenceValue ==
    PrevalenceReturned =>
        /\ Len(prev_df) = Len(OUTCOME_COLS)
        /\ \A i \in 1..Len(OUTCOME_COLS) :
              Cardinality({ k \in 1..Len(prev_df) :
                              prev_df[k]["Outcome"] = nice_label(OUTCOME_COLS[i]) }) = 1
        /\ \A i \in 1..Len(OUTCOME_COLS) :
              LET col == OUTCOME_COLS[i]
                  n == Len(filtered.data)
                  yes == YesRows(filtered, col)
              IN  /\ NearestTenth(Reported(col), yes, n)
                  /\ Reported(col) \in 0..1000
                  /\ yes = n => Reported(col) = 1000
        /\ Column(filtered, "Heart_Attack") = << "Yes", "No", "YES", "no" >>
              => Reported("Heart_Attack") = 500

\* the four-row example, reported as 50.0
C4_Witness ==
    /\ PrevalenceReturned
    /\ Column(filtered, "Heart_Attack") = << "Yes", "No", "YES", "no" >>
    /\ Reported("Heart_Attack") = 500

\* position of a result row's outcome in OUTCOME_COLS
ColumnOrder(row) ==
    CHOOSE i \in 1..Len(OUTCOME_COLS) : nice_label(OUTCOME_COLS[i]) = row["Outcome"]

Descending ==
    \A k \in 1..(Len(prev_df) - 1) :
        prev_df[k]["Prevalence (%)"] >= prev_df[k + 1]["Prevalence (%)"]

TiesInColumnOrder ==
    \A k \in 1..(Len(prev_df) - 1) :
        prev_df[k]["Prevalence (%)"] = prev_df[k + 1]["Prevalence (%)"]
            => ColumnOrder(prev_df[k]) < ColumnOrder(prev_df[k + 1])

\* C5 as stated: prevalence_table's rows are in descending order of
\* prevalence, and rows of equal prevalence keep the order of OUTCOME_COLS.
C5_StableOrder == PrevalenceReturned => Descending /\ TiesInColumnOrder

\* C5 as amended: prevalence_table's rows are the 8 outcome rows in
\* descending order of prevalence; the order of rows of equal prevalence is
\* not determined.
C5_DescendingOrder ==
    PrevalenceReturned =>
        /\ Descending
        /\ { ColumnOrder(prev_df[k]) : k \in 1..Len(prev_df) } = 1..Len(OUTCOME_COLS)

\* a result with distinct prevalences and a tie out of column order
C5_Witness ==
    /\ PrevalenceReturned
    /\ prev_df[1]["Prevalence (%)"] > prev_df[Len(prev_df)]["Prevalence (%)"]
    /\ ~TiesInColumnOrder

\* the quantile cut points of the current run have been computed
TiersRan == Len(q) > 0

Coincide(bins) == \E i \in 1..(Len(bins) - 1) : bins[i] = bins[i + 1]

Grouped(frame) ==
    \A i \in 1..Len(frame.data) :
        /\ "Lifestyle_Group" \in DOMAIN frame.data[i]
        /\ frame.data[i]["Lifestyle_Group"] \in Range(TierLabels)

\* C6 as stated: when two or more of the four cut points coincide the
\* lifestyle-tier computation raises no error and gives every row a defined
\* group; for 9 rows with one common value the result is the single group
\* "Low" holding all 9 rows.
C6_DegenerateBinsCollapse ==
    (TiersRan /\ Coincide(q)) =>
        /\ raised = ""
        /\ Grouped(filtered_life)
        /\ (Len(filtered.data) = 9
              /\ Cardinality(Range(Column(filtered, life_var))) = 1)
             => /\ Len(group_prev) = 1
                /\ group_prev[1].Lifestyle_Group = "Low"
                /\ group_prev[1].Prevalence[2] = 9

\* rows of frame that belong to the group of result row k
Members(frame, k) ==
    { i \in 1..Len(frame.data) :
        /\ "Lifestyle_Group" \in DOMAIN frame.data[i]
        /\ frame.data[i]["Lifestyle_Group"] = group_prev[k].Lifestyle_Group }

\* C7 as stated: for every non-empty filtered table and lifestyle column the
\* returned groups partition the table (each row in exactly one group among
\* Low/Medium/High), a row at the column minimum is in "Low", and no group
\* without members is returned.
C7_GroupsPartition ==
    TiersRan =>
        /\ raised = ""
        /\ Len(filtered_life.data) = Len(filtered.data)
        /\ \A i \in 1..Len(filtered_life.data) :
              Cardinality({ k \in 1..Len(group_prev) :
                              i \in Members(filtered_life, k) }) = 1
        /\ \A i \in 1..Len(filtered_life.data) :
              filtered.data[i][life_var] = SeriesMin(Column(filtered, life_var))
                  => filtered_life.data[i]["Lifestyle_Group"] = "Low"
        /\ \A k \in 1..Len(group_prev) :
              /\ group_prev[k].Lifestyle_Group \in Range(TierLabels)
              /\ Members(filtered_life, k) # {}

\* position in base of the row labelled like row k of frame
PositionIn(base, frame, k) ==
    CHOOSE i \in 1..Len(base.index) : base.index[i] = frame.index[k]

SubFrame(frame, base) ==
    /\ Len(frame.index) = Len(frame.data)
    /\ Range(frame.index) \subseteq Range(base.index)
    /\ \A k \in 1..Len(frame.data) :
          frame.data[k] = base.data[PositionIn(base, frame, k)]
    /\ \A k \in 1..(Len(frame.data) - 1) :
          PositionIn(base, frame, k) < PositionIn(base, frame, k + 1)

\* C8: the table apply_filters returns is the base table's rows in their
\* original order with some rows left out, columns and cell values unchanged,
\* and the call leaves the base table as it was.
C8_OrderedSubTable ==
    /\ [](FilterReturned => SubFrame(filtered, df))
    /\ [][pc = "filter" => df' = df]_vars

\* a call that kept two or more rows and left some out
C8_Witness ==
    /\ FilterReturned
    /\ Len(filtered.data) >= 2
    /\ Len(filtered.data) < Len(df.data)

AllDefined(r) ==
    /\ \A c \in RangeCols : r[c] # NaN
    /\ \A c \in SetCols : r[c] # NA

\* C9 as stated: on initial load, with every slider at the bounds derived
\* from the base table and every multiselect at all observed values, every
\* row whose nine filter fields are all defined passes the filter.
C9_DefaultsKeepDefinedRows ==
    (FilterReturned /\ passes = 1) =>
        \A i \in 1..Len(df.data) :
            AllDefined(df.data[i]) => Kept(filtered, df, i)

\* C10: the loader's body runs once; from then on the cached base table never
\* changes, every pass starts from it, no step of a pass changes the pass's
\* base table (which never gains Lifestyle_Group), and the pass's filtered
\* table and lifestyle view hold rows of that base table only.
C10_BaseTableReadOnly ==
    /\ [](/\ loads <= 1
          /\ pc # "load" => (loads = 1 /\ df = cache)
          /\ \A i \in 1..Len(df.data) : "Lifestyle_Group" \notin DOMAIN df.data[i]
          /\ FilterReturned => Range(filtered.data) \subseteq Range(df.data)
          /\ Range(filtered_life.index) \subseteq Range(df.index))
    /\ [][loads = 1 => (loads' = 1 /\ cache' = cache)]_vars

\* a second pass that ran to its end on fewer rows than the base table has
C10_Witness ==
    /\ passes = 2
    /\ pc = "done"
    /\ Len(filtered.data) < Len(df.data)
    /\ Grouped(filtered_life)

====
